---- MODULE Spec2Model ----
(***************************************************************************)
(* A model of the metadata crawler of src/main.py: one producer task       *)
(* (main), a pool of worker tasks and one batching task (save_worker)      *)
(* that share two FIFO queues under asyncio's cooperative scheduling.      *)
(* Every action is one run of a task from the point where it resumes to    *)
(* the next await that suspends it.                                        *)
(***************************************************************************)
EXTENDS Integers, Sequences, FiniteSets, TLC

(***************************************************************************)
(* Bounds of the model.  NumWorkers, HighWaterMark and BatchCap stand for   *)
(* the literals 200, 10000 and 100 of the source, scaled down so that the  *)
(* queues can pass them within a few items.                                *)
(***************************************************************************)
NumWorkers == 2

HighWaterMark == 0

BatchCap == 2

MaxItems == 3

MaxPage == 2

MaxDrain == 5

(***************************************************************************)
(* Text.  A str is a tuple of one-character strings; a payload that the    *)
(* program only passes on (a JSON document) is a tuple of one chunk.       *)
(* Optional[T] is <<>> for None and <<v>> for a value v.                   *)
(***************************************************************************)
None == <<>>

Some(v) == <<v>>

LowerSeq ==
  <<"a","b","c","d","e","f","g","h","i","j","k","l","m",
    "n","o","p","q","r","s","t","u","v","w","x","y","z">>

UpperSeq ==
  <<"A","B","C","D","E","F","G","H","I","J","K","L","M",
    "N","O","P","Q","R","S","T","U","V","W","X","Y","Z">>

Range(s) == {s[i] : i \in 1..Len(s)}

Lower == Range(LowerSeq)

Upper == Range(UpperSeq)

Digit == {"0","1","2","3","4","5","6","7","8","9"}

\* the character class [a-zA-Z0-9] of the regular expression
Alnum == Lower \cup Upper \cup Digit

\* the character class [a-z0-9] of the regular expression
LowerAlnum == Lower \cup Digit

\* n copies of the character c
Rep(c, n) == [i \in 1..n |-> c]

\* str.lower() on one character
LowerChar(c) ==
  IF c \in Upper THEN LowerSeq[CHOOSE i \in 1..Len(UpperSeq) : UpperSeq[i] = c] ELSE c

\* str.lower()
ToLower(s) == [i \in 1..Len(s) |-> LowerChar(s[i])]

\* str.startswith(p)
StartsWith(s, p) == Len(s) >= Len(p) /\ SubSeq(s, 1, Len(p)) = p

\* Python truthiness of an Optional[str]: None and "" are false
TruthyStr(opt) == opt # None /\ opt[1] # <<>>

\* Python truthiness of an Optional[int]: None and 0 are false
TruthyInt(opt) == opt # None /\ opt[1] # 0

(***************************************************************************)
(* Configuration and status codes.                                         *)
(***************************************************************************)
IPFS_GATEWAY == <<"h","t","t","p","s",":","/","/","g","w","/","i","p","f","s","/">>

STATUS_CODE_NO_RESULT == 0

STATUS_CODE_NOT_PARSABLE == 1

STATUS_CODE_INVALID_URI == 2

STATUS_CODE_SERVICE_NOT_FOUND == 3

STATUS_CODE_INVALID_IPFS == 4

STATUS_CODE_UNKNOWN_PROTOCOL == 5

STATUS_CODE_NO_JSON == 1

\* the code the worker gives an item resolved from inline data
CODE_INLINE == 200

\* the lengths of the two content-address shapes of the regular expression
CidLenA == 46

CidLenB == 59

(***************************************************************************)
(* try_get_data: datauri.parse, then bytes.decode("UTF-8"); any exception  *)
(* gives None.  A data URI is "data:" <media type> "," <data>; the byte    *)
(* that is not valid UTF-8 is written "\\xff".                             *)
(***************************************************************************)
DataPrefix == <<"d","a","t","a",":">>

BadByte == "\\xff"

\* the index of the first comma of s, 0 when there is none
FirstComma(s) ==
  IF \E i \in 1..Len(s) : s[i] = ","
    THEN CHOOSE i \in 1..Len(s) : s[i] = "," /\ \A j \in 1..(i - 1) : s[j] # ","
    ELSE 0

\* datauri.parse(token_uri).data, None when parse raises
DataUriParse(token_uri) ==
  IF StartsWith(token_uri, DataPrefix) /\ FirstComma(token_uri) # 0
    THEN Some(SubSeq(token_uri, FirstComma(token_uri) + 1, Len(token_uri)))
    ELSE None

\* content.decode("UTF-8"), None when it raises
DecodeUtf8(content) ==
  IF BadByte \in Range(content) THEN None ELSE Some(content)

try_get_data(token_uri) ==
  IF DataUriParse(token_uri) = None
    THEN None
    ELSE DecodeUtf8(DataUriParse(token_uri)[1])

(***************************************************************************)
(* replace_ipfs_gateway: re.search of                                      *)
(*   \/([a-zA-Z0-9]{46}|[a-z0-9]{59})(\/|$){1}                              *)
(* and, on a match, the gateway followed by the text from found.start().   *)
(***************************************************************************)
\* ([...]{n})(\/|$) matches at index j: n characters of cls, then "/" or the end
\* (Python's $ also matches before a newline that ends the text)
SegmentAt(s, j, n, cls) ==
  /\ j + n - 1 <= Len(s)
  /\ \A k \in j..(j + n - 1) : s[k] \in cls
  /\ \/ j + n = Len(s) + 1
     \/ s[j + n] = "/"
     \/ j + n = Len(s) /\ s[j + n] = "\n"

\* the whole pattern matches with its first character at index i
MatchAt(s, i) ==
  /\ s[i] = "/"
  /\ \/ SegmentAt(s, i + 1, CidLenA, Alnum)
     \/ SegmentAt(s, i + 1, CidLenB, LowerAlnum)

\* found.start() as a 1-based index, 0 when re.search finds nothing
SearchStart(s) ==
  IF \E i \in 1..Len(s) : MatchAt(s, i)
    THEN CHOOSE i \in 1..Len(s) : MatchAt(s, i) /\ \A j \in 1..(i - 1) : ~MatchAt(s, j)
    ELSE 0

\* replace_ipfs_gateway that keeps the text from the segment, not from the "/" before it
replace_ipfs_gateway_FromSegment(token_uri) ==
  IF SearchStart(token_uri) = 0
    THEN token_uri
    ELSE IPFS_GATEWAY \o SubSeq(token_uri, SearchStart(token_uri) + 1, Len(token_uri))

replace_ipfs_gateway(token_uri) ==
  IF SearchStart(token_uri) = 0
    THEN token_uri
    ELSE IPFS_GATEWAY \o SubSeq(token_uri, SearchStart(token_uri), Len(token_uri))

(***************************************************************************)
(* request_metadata.  The two scheme checks return without suspending;     *)
(* otherwise the GET suspends the task and ends in one of the outcomes     *)
(* that the try/except ladder tells apart.                                 *)
(***************************************************************************)
IpfsScheme == <<"i","p","f","s",":","/","/">>

ArScheme == <<"a","r",":","/","/">>

Json(chunk) == <<chunk>>

\* SchemeRejection without the check for ipfs://
SchemeRejection_ArOnly(token_uri) ==
  IF StartsWith(ToLower(token_uri), ArScheme)
    THEN Some(<<Some(STATUS_CODE_UNKNOWN_PROTOCOL), Some(Json("{\"error\": \"unknown protocol\"}"))>>)
    ELSE None

\* the pair returned before any GET, None when the GET is issued
SchemeRejection(token_uri) ==
  IF StartsWith(ToLower(token_uri), IpfsScheme)
    THEN Some(<<Some(STATUS_CODE_INVALID_IPFS), Some(Json("{\"error\": \"invalid ipfs link\"}"))>>)
  ELSE IF StartsWith(ToLower(token_uri), ArScheme)
    THEN Some(<<Some(STATUS_CODE_UNKNOWN_PROTOCOL), Some(Json("{\"error\": \"unknown protocol\"}"))>>)
  ELSE None

\* response.status of a GET that got a response
HttpStatuses == {200, 404}

\* how the GET of request_metadata can end
FetchOutcomes ==
  {[kind |-> "json", status |-> st] : st \in HttpStatuses}
    \cup {[kind |-> k, status |-> 0] :
            k \in {"JSONDecodeError", "ContentTypeError", "ClientConnectorError",
                   "InvalidURL", "Exception"}}

\* the pair request_metadata returns when the GET ends with outcome o
FetchResult(o) ==
  CASE o.kind = "json" ->
         <<Some(o.status), Some(Json("{\"name\": \"n\"}"))>>
    [] o.kind = "JSONDecodeError" ->
         <<Some(STATUS_CODE_NOT_PARSABLE), Some(Json("{\"error\": \"result is not parsable\"}"))>>
    [] o.kind = "ContentTypeError" ->
         <<Some(STATUS_CODE_NO_JSON), Some(Json("{\"error\": \"result is no json\"}"))>>
    [] o.kind = "ClientConnectorError" ->
         <<Some(STATUS_CODE_SERVICE_NOT_FOUND), Some(Json("{\"error\": \"service not found\"}"))>>
    [] o.kind = "InvalidURL" ->
         <<Some(STATUS_CODE_INVALID_URI), Some(Json("{\"error\": \"invalid URI\"}"))>>
    [] OTHER -> <<None, None>>

(***************************************************************************)
(* The token URIs the source serves.  A run draws its URIs from one pool:   *)
(* one pool for each kind of URI the resolver treats apart, and one that   *)
(* mixes inline data with URIs that are fetched.                           *)
(***************************************************************************)
HttpUri == <<"h","t","t","p",":","/","/","h">>

InlineText == DataPrefix \o <<",","x">>

InlineEmpty == DataPrefix \o <<",">>

IpfsCid == IpfsScheme \o Rep("Q", CidLenA)

IpfsPlain == IpfsScheme \o <<"x">>

ArCid == ArScheme \o Rep("q", CidLenB) \o <<"/","m">>

ArPlain == ArScheme \o <<"x">>

\* a tokenUri that is JSON null: token_uri is None, not a str
NullUri == <<"None">>

IsStr(token_uri) == token_uri # NullUri

Uris ==
  {HttpUri, InlineText, InlineEmpty, IpfsCid, IpfsPlain, ArCid, ArPlain, NullUri}

UriPools == {{u} : u \in Uris} \cup {{HttpUri, InlineText}}

\* how the remote hosts of a run answer: every GET of the run ends the same way
RemoteProfiles == {{o} : o \in FetchOutcomes}

\* a run: the URIs served and the answers of the remote hosts.  The pool
\* of the ordinary http URI meets every answer, the others a response
Scenarios ==
  {<<p, r>> \in UriPools \X RemoteProfiles :
     p = {HttpUri} \/ r = {[kind |-> "json", status |-> 200]}}

\* line 23: the default of MAX_REQUESTS, the same literal as the number of
\* worker tasks of line 193
DefaultMaxRequests == NumWorkers

\* line 23: the value of the environment variable, if set, else the default
MaxRequestsOf(env) == IF env # None THEN env[1] ELSE DefaultMaxRequests

(***************************************************************************)
(* State.                                                                  *)
(***************************************************************************)
VARIABLES
  pool,          \* the URIs the source serves in this run
  remote,        \* the outcomes the GETs of this run can have
  MAX_REQUESTS,  \* the configured number of parallel requests
  input_queue,   \* the Work Queue
  output_queue,  \* the Result Queue
  mainpc,        \* where main is: the await it is suspended at, or how it ended
  created,       \* the number of WorkloadItem objects constructed so far
  putDepths,     \* the Work Queue depth before each put of the last page
  wpc,           \* where each worker is
  held,          \* each worker's locals (item, token_uri) across the GET
  bpc,           \* where save_worker is
  batch,         \* save_worker's local items across the POST
  sinkCalls,     \* the ids of the items of every save_workload call, in order
  rewriteCalls,  \* the ids of the items replace_ipfs_gateway was called with
  requestCalls,  \* the calls of request_metadata: item id and argument
  getCalls,      \* the ids of the items a GET was issued for
  rw_uri,        \* the argument of a call of replace_ipfs_gateway on its own
  rw_out         \* what that call returned, None before it

vars ==
  <<pool, remote, MAX_REQUESTS, input_queue, output_queue, mainpc, created, putDepths,
    wpc, held, bpc, batch, sinkCalls, rewriteCalls, requestCalls, getCalls,
    rw_uri, rw_out>>

Workers == 1..NumWorkers

\* WorkloadItem.__init__: the identifiers (here the object's number) and the URI
WorkloadItem(id, token_uri) ==
  [id |-> id, token_uri |-> token_uri, response_code |-> None, metadata |-> None]

\* WorkloadItem.set_metadata
set_metadata(item, response_code, metadata) ==
  [item EXCEPT !.response_code = response_code, !.metadata = metadata]

\* Queue.get_nowait: the oldest item leaves the queue; on an empty queue the
\* call raises queue.Empty
get_nowait(q) ==
  IF q = <<>>
    THEN [empty |-> TRUE, q |-> q, item |-> None]
    ELSE [empty |-> FALSE, q |-> Tail(q), item |-> Head(q)]

\* a call of request_metadata for an item, with the argument it was given
Call(item, arg) == [id |-> item.id, arg |-> arg]

Ids(items) == [i \in 1..Len(items) |-> items[i].id]

\* main returned: run_until_complete ends and with it every task
Halted == mainpc = "done"

(***************************************************************************)
(* worker.  A worker runs from the top of its loop to its next suspension: *)
(* the sleep on an empty Work Queue or the GET of request_metadata.  Items *)
(* resolved without a GET are handled in the same run.                     *)
(***************************************************************************)
\* Emit that puts the item twice
Emit_Twice(st, item) ==
  [st EXCEPT !.oq = Append(Append(@, item), item)]

\* output_queue.put_nowait(item)
Emit(st, item) ==
  [st EXCEPT !.oq = Append(@, item)]

\* Resolve without the conversion of the unset pair
Resolve_NoConversion(item, pair) == set_metadata(item, pair[1], pair[2])

\* lines 148-152: the unset pair becomes code 0, then item.set_metadata
Resolve(item, pair) ==
  IF ~TruthyInt(pair[1]) /\ ~TruthyStr(pair[2])
    THEN set_metadata(item, Some(STATUS_CODE_NO_RESULT), Some(Json("{\"error\": \"no response\"}")))
    ELSE set_metadata(item, pair[1], pair[2])

\* the worker's view of the state at the top of its loop
WorkerView ==
  [iq |-> input_queue, oq |-> output_queue,
   rw |-> rewriteCalls, rq |-> requestCalls, get |-> getCalls,
   pc |-> "run", held |-> None]

RECURSIVE WorkerLoop(_)
WorkerLoop(st) ==
  IF st.iq = <<>>
    THEN [st EXCEPT !.pc = "sleep"]
    ELSE IF get_nowait(st.iq).empty
      \* queue.Empty is raised again at line 155: the task ends
      THEN [st EXCEPT !.pc = "queue_empty"]
    ELSE
      LET item == get_nowait(st.iq).item
          taken == [st EXCEPT !.iq = get_nowait(@).q]
          data == try_get_data(item.token_uri)
      IN
      IF TruthyStr(data)
        THEN WorkerLoop(Emit(taken, set_metadata(item, Some(CODE_INLINE), data)))
      ELSE IF ~IsStr(item.token_uri)
        \* re.search raises TypeError: the task ends with the item in hand
        THEN [taken EXCEPT !.rw = @ \cup {item.id}, !.pc = "dead",
                           !.held = Some([item |-> item, token_uri |-> item.token_uri])]
      ELSE
        LET token_uri == replace_ipfs_gateway(item.token_uri)
            called == [taken EXCEPT !.rw = @ \cup {item.id},
                                    !.rq = @ \cup {Call(item, token_uri)}]
        IN
        IF SchemeRejection(token_uri) # None
          THEN WorkerLoop(Emit(called, Resolve(item, SchemeRejection(token_uri)[1])))
          ELSE [called EXCEPT !.get = @ \cup {item.id}, !.pc = "get",
                              !.held = Some([item |-> item, token_uri |-> token_uri])]

\* the state after worker w ran to the suspension st
WorkerSuspends(w, st) ==
  /\ input_queue' = st.iq
  /\ output_queue' = st.oq
  /\ rewriteCalls' = st.rw
  /\ requestCalls' = st.rq
  /\ getCalls' = st.get
  /\ wpc' = [wpc EXCEPT ![w] = st.pc]
  /\ held' = [held EXCEPT ![w] = st.held]
  /\ UNCHANGED <<rw_uri, rw_out, pool, remote, MAX_REQUESTS, mainpc, created, putDepths, bpc, batch, sinkCalls>>

\* a worker starts, or wakes from asyncio.sleep(1)
WorkerRun(w) ==
  /\ ~Halted
  /\ wpc[w] = "sleep"
  /\ WorkerSuspends(w, WorkerLoop(WorkerView))

\* the GET of worker w ends with outcome o
FetchReturns(w, o) ==
  /\ ~Halted
  /\ wpc[w] = "get"
  /\ WorkerSuspends(w, WorkerLoop(Emit(WorkerView, Resolve(held[w][1].item, FetchResult(o)))))

(***************************************************************************)
(* main.  It is suspended in get_workload or in one of its two sleeps; a   *)
(* page is enqueued whole in the run that receives it.  The work source is *)
(* taken to answer every poll with a well-formed page.                     *)
(***************************************************************************)
Min(a, b) == IF a < b THEN a ELSE b

\* the pages get_workload can return now: fresh WorkloadItems with URIs of the pool
PageUris == UNION {[1..n -> pool] : n \in 0..Min(MaxPage, MaxItems - created)}

NewPage(uris) == [i \in 1..Len(uris) |-> WorkloadItem(created + i, uris[i])]

\* lines 210-211: put every item, noting the depth each put finds
RECURSIVE PutAll(_, _, _)
PutAll(q, page, depths) ==
  IF page = <<>>
    THEN [q |-> q, depths |-> depths]
    ELSE PutAll(Append(q, Head(page)), Tail(page), Append(depths, Len(q)))

\* LoopTop with the threshold off by one
LoopTop_OffByOne(q) == IF Len(q) > HighWaterMark + 1 THEN "sleep_bp" ELSE "get_workload"

\* LoopTop that sleeps at the mark too
LoopTop_AtMark(q) == IF Len(q) >= HighWaterMark THEN "sleep_bp" ELSE "get_workload"

\* lines 198-203: back at the top of the loop, main sleeps or polls the source
LoopTop(q) == IF Len(q) > HighWaterMark THEN "sleep_bp" ELSE "get_workload"

\* AfterEmptyPage with the check of the Result Queue left out
AfterEmptyPage_InputOnly(iq, oq) ==
  IF iq = <<>> THEN "done" ELSE "sleep_empty"

\* lines 205-208: after an empty page main returns or sleeps
AfterEmptyPage(iq, oq) ==
  IF oq = <<>> /\ iq = <<>> THEN "done" ELSE "sleep_empty"

\* get_workload returns a page
SourceReturns(uris) ==
  /\ mainpc = "get_workload"
  /\ created' = created + Len(uris)
  /\ LET workload == NewPage(uris) IN
     IF workload = <<>>
       THEN /\ mainpc' = AfterEmptyPage(input_queue, output_queue)
            /\ putDepths' = <<>>
            /\ UNCHANGED input_queue
       ELSE /\ input_queue' = PutAll(input_queue, workload, <<>>).q
            /\ putDepths' = PutAll(input_queue, workload, <<>>).depths
            /\ mainpc' = LoopTop(input_queue')
  /\ UNCHANGED <<rw_uri, rw_out, pool, remote, MAX_REQUESTS, output_queue, wpc, held, bpc, batch, sinkCalls,
                 rewriteCalls, requestCalls, getCalls>>

\* main wakes from asyncio.sleep(1); after the sleep of an empty page the for
\* loop runs over the empty workload
MainWake ==
  /\ mainpc \in {"sleep_bp", "sleep_empty"}
  /\ mainpc' = LoopTop(input_queue)
  /\ UNCHANGED <<rw_uri, rw_out, pool, remote, MAX_REQUESTS, input_queue, output_queue, created, putDepths,
                 wpc, held, bpc, batch, sinkCalls, rewriteCalls, requestCalls, getCalls>>

(***************************************************************************)
(* save_worker and save_workload.                                          *)
(***************************************************************************)
\* Drain from the wrong end of the queue
Drain_NewestFirst(q, size, items) ==
  [q |-> SubSeq(q, 1, Len(q) - size), items |-> SubSeq(q, Len(q) - size + 1, Len(q)),
   empty |-> FALSE]

\* Drain that reads the items and leaves them in the queue
Drain_Peek(q, size, items) ==
  [q |-> q, items |-> SubSeq(q, 1, size), empty |-> FALSE]

\* lines 166-170: size times get_nowait; every WorkloadItem is truthy.  A
\* get_nowait that finds the queue empty ends the loop with queue.Empty
RECURSIVE Drain(_, _, _)
Drain(q, size, items) ==
  IF size = 0
    THEN [q |-> q, items |-> items, empty |-> FALSE]
  ELSE IF get_nowait(q).empty
    THEN [q |-> q, items |-> items, empty |-> TRUE]
  ELSE Drain(get_nowait(q).q, size - 1, Append(items, get_nowait(q).item))

\* lines 173-180: len(metadata) and the :3d format raise on None
PrintFault(items) ==
  \E i \in 1..Len(items) : items[i].metadata = None \/ items[i].response_code = None

\* BatchSize that ignores the depth
BatchSize_CapOnly(depth) == BatchCap

\* BatchSize without the cap
BatchSize_NoCap(depth) == depth

\* line 161: size = min(output_queue.qsize(), 100)
BatchSize(depth) == Min(depth, BatchCap)

\* one iteration of the loop of save_worker, from its top to its suspension
BatcherIteration ==
  LET size == BatchSize(Len(output_queue))
      drained == Drain(output_queue, size, <<>>)
  IN
  IF size = 0
    THEN /\ bpc' = "sleep"
         /\ batch' = <<>>
         /\ UNCHANGED <<output_queue, sinkCalls>>
    ELSE /\ output_queue' = drained.q
         /\ IF drained.empty
              \* queue.Empty is raised again at line 187: the task ends
              THEN /\ bpc' = "queue_empty"
                   /\ batch' = <<>>
                   /\ UNCHANGED sinkCalls
            ELSE IF PrintFault(drained.items)
              THEN /\ bpc' = "dead"
                   /\ batch' = <<>>
                   /\ UNCHANGED sinkCalls
              ELSE /\ bpc' = "post"
                   /\ batch' = drained.items
                   /\ sinkCalls' = Append(sinkCalls, Ids(drained.items))

\* save_worker starts, or wakes from asyncio.sleep(5)
BatcherRun ==
  /\ ~Halted
  /\ bpc = "sleep"
  /\ BatcherIteration
  /\ UNCHANGED <<rw_uri, rw_out, pool, remote, MAX_REQUESTS, input_queue, mainpc, created, putDepths,
                 wpc, held, rewriteCalls, requestCalls, getCalls>>

\* SleepsAfter that sleeps after every batch
SleepsAfter_Always(size) == TRUE


\* line 184: after the POST save_worker sleeps if size < 100
SleepsAfter(size) == size < BatchCap

\* how the POST of save_workload can end: status 200, another status with a
\* JSON body, or an exception (transport fault, a body that is not JSON)
SinkOutcomes == {"200", "status", "fault"}

\* the POST ends with outcome o
SinkReturns(o) ==
  /\ ~Halted
  /\ bpc = "post"
  /\ IF o = "fault"
       THEN /\ bpc' = "dead"
            /\ batch' = <<>>
            /\ UNCHANGED <<output_queue, sinkCalls>>
       ELSE IF SleepsAfter(Len(batch))
         THEN /\ bpc' = "sleep"
              /\ batch' = <<>>
              /\ UNCHANGED <<output_queue, sinkCalls>>
         ELSE BatcherIteration
  /\ UNCHANGED <<rw_uri, rw_out, pool, remote, MAX_REQUESTS, input_queue, mainpc, created, putDepths,
                 wpc, held, rewriteCalls, requestCalls, getCalls>>

(***************************************************************************)
(* The pipeline: main has created the tasks and is suspended in its first  *)
(* get_workload.  A task that has not run yet is scheduled like one whose  *)
(* sleep is over: its next run starts at the top of its loop.              *)
(***************************************************************************)
TasksCreated ==
  /\ input_queue = <<>>
  /\ mainpc = "get_workload"
  /\ putDepths = <<>>
  /\ wpc = [w \in Workers |-> "sleep"]
  /\ held = [w \in Workers |-> None]
  /\ bpc = "sleep"
  /\ batch = <<>>
  /\ sinkCalls = <<>>

Init ==
  /\ \E sc \in Scenarios : pool = sc[1] /\ remote = sc[2]
  /\ MAX_REQUESTS = MaxRequestsOf(None)
  /\ TasksCreated
  /\ output_queue = <<>>
  /\ created = 0
  /\ rewriteCalls = {}
  /\ requestCalls = {}
  /\ getCalls = {}
  /\ rw_uri = <<>>
  /\ rw_out = None

Next ==
  \/ \E uris \in PageUris : SourceReturns(uris)
  \/ MainWake
  \/ \E w \in Workers : WorkerRun(w)
  \/ \E w \in Workers, o \in remote : FetchReturns(w, o)
  \/ BatcherRun
  \/ \E o \in SinkOutcomes : SinkReturns(o)

Spec == Init /\ [][Next]_vars

(***************************************************************************)
(* The drain of a Result Queue that no worker adds to: the workers have    *)
(* resolved n items while save_worker slept and find no more work, and the *)
(* source poll of main is pending.  Only save_worker runs.                 *)
(***************************************************************************)
JsonOk == [kind |-> "json", status |-> 200]

\* what the worker emits for the item, an inline one or one whose GET got a response
Resolved(item) ==
  IF TruthyStr(try_get_data(item.token_uri))
    THEN set_metadata(item, Some(CODE_INLINE), try_get_data(item.token_uri))
    ELSE Resolve(item, FetchResult(JsonOk))

\* the Result Queues of up to MaxDrain items
DrainQueues ==
  UNION {{[i \in 1..n |-> Resolved(WorkloadItem(i, uris[i]))] :
            uris \in [1..n -> {HttpUri, InlineText}]} : n \in 0..MaxDrain}

FetchedIds(q) == {q[i].id : i \in {j \in 1..Len(q) : q[j].token_uri = HttpUri}}

FetchedCalls(q) ==
  {Call(q[i], q[i].token_uri) : i \in {j \in 1..Len(q) : q[j].token_uri = HttpUri}}

InitDrain ==
  /\ pool = {HttpUri, InlineText}
  /\ remote = {JsonOk}
  /\ MAX_REQUESTS = MaxRequestsOf(None)
  /\ TasksCreated
  /\ output_queue \in DrainQueues
  /\ created = Len(output_queue)
  /\ rewriteCalls = FetchedIds(output_queue)
  /\ requestCalls = FetchedCalls(output_queue)
  /\ getCalls = FetchedIds(output_queue)
  /\ rw_uri = <<>>
  /\ rw_out = None

NextDrain ==
  \/ BatcherRun
  \/ \E o \in SinkOutcomes : SinkReturns(o)

SpecDrain == InitDrain /\ [][NextDrain]_vars

(***************************************************************************)
(* The pipeline under asyncio's scheduling: a sleep ends, an awaited       *)
(* request returns, and the event loop resumes every task that is ready.   *)
(***************************************************************************)
Fairness ==
  /\ WF_vars(\E uris \in PageUris : SourceReturns(uris))
  /\ WF_vars(MainWake)
  /\ \A w \in Workers : WF_vars(WorkerRun(w))
  /\ \A w \in Workers : WF_vars(\E o \in remote : FetchReturns(w, o))
  /\ WF_vars(BatcherRun)
  /\ WF_vars(\E o \in SinkOutcomes : SinkReturns(o))

\* the runs of the fair pipeline: the ordinary http URI, answered, or the
\* tokenUri that is null
FairPools == {{HttpUri}, {NullUri}}

InitFair ==
  /\ pool \in FairPools
  /\ remote = {[kind |-> "json", status |-> 200]}
  /\ MAX_REQUESTS = MaxRequestsOf(None)
  /\ TasksCreated
  /\ output_queue = <<>>
  /\ created = 0
  /\ rewriteCalls = {}
  /\ requestCalls = {}
  /\ getCalls = {}
  /\ rw_uri = <<>>
  /\ rw_out = None

SpecFair == InitFair /\ [][Next]_vars /\ Fairness

\* the same runs with nothing assumed but that the sleeps of main end
SpecWake == InitFair /\ [][Next]_vars /\ WF_vars(MainWake)

(***************************************************************************)
(* The pipeline for every value of the environment variable MAX_REQUESTS,  *)
(* with the ordinary http URI served and answered.                         *)
(***************************************************************************)
MaxConfigured == 3

EnvValues == {None} \cup {Some(n) : n \in 1..MaxConfigured}

InitConfig ==
  /\ pool = {HttpUri}
  /\ remote = {JsonOk}
  /\ MAX_REQUESTS \in {MaxRequestsOf(env) : env \in EnvValues}
  /\ TasksCreated
  /\ output_queue = <<>>
  /\ created = 0
  /\ rewriteCalls = {}
  /\ requestCalls = {}
  /\ getCalls = {}
  /\ rw_uri = <<>>
  /\ rw_out = None

SpecConfig == InitConfig /\ [][Next]_vars

(***************************************************************************)
(* replace_ipfs_gateway on its own, applied to URIs built from a prefix, a *)
(* separator, a run of characters and a suffix.                            *)
(***************************************************************************)
ExamplePrefix == <<"h","t","t","p","s",":","/","/","e","x","a","m","p","l","e",".","c","o","m","/","i","p","f","s">>

MetaJson == <<"/","m","e","t","a",".","j","s","o","n">>

RewritePrefixes == {<<>>, <<"x">>, ExamplePrefix, <<"i","p","f","s",":","/">>}

RewriteSeparators == {<<"/">>, <<".">>}

RewriteRuns ==
  {<<>>, Rep("Q", CidLenA - 1), Rep("Q", CidLenA), Rep("q", CidLenA), Rep("Q", CidLenA + 1),
   Rep("q", CidLenB), Rep("Q", CidLenB), Rep("q", CidLenB + 1)}

RewriteSuffixes ==
  {<<>>, MetaJson, <<".","j">>, <<"\n">>, <<"/">> \o Rep("7", CidLenA)}

RewriteInputs ==
  {p \o sep \o run \o suf :
     p \in RewritePrefixes, sep \in RewriteSeparators, run \in RewriteRuns,
     suf \in RewriteSuffixes}

InitRewrite ==
  /\ pool = {HttpUri}
  /\ remote = {JsonOk}
  /\ MAX_REQUESTS = MaxRequestsOf(None)
  /\ TasksCreated
  /\ output_queue = <<>>
  /\ created = 0
  /\ rewriteCalls = {}
  /\ requestCalls = {}
  /\ getCalls = {}
  /\ rw_uri \in RewriteInputs
  /\ rw_out = None

\* the call returns
Rewrite ==
  /\ rw_out = None
  /\ rw_out' = Some(replace_ipfs_gateway(rw_uri))
  /\ UNCHANGED <<rw_uri, pool, remote, MAX_REQUESTS, input_queue, output_queue, mainpc, created,
                 putDepths, wpc, held, bpc, batch, sinkCalls, rewriteCalls, requestCalls,
                 getCalls>>

NextRewrite == Rewrite

SpecRewrite == InitRewrite /\ [][NextRewrite]_vars

(***************************************************************************)
(* The claims.                                                             *)
(***************************************************************************)
RECURSIVE Flatten(_)
Flatten(seqs) == IF seqs = <<>> THEN <<>> ELSE Head(seqs) \o Flatten(Tail(seqs))

\* C1 (as claimed): no silent drops; in particular main has never returned
\* while a worker is suspended in the GET of an item it dequeued and whose
\* result it has not put to the Result Queue.  Stated for the runs whose
\* items all have the ordinary http URI.
C1_NoHaltWhileHolding ==
  (pool = {HttpUri} /\ mainpc = "done") => \A w \in Workers : wpc[w] # "get"

C3_EveryPutBelowMark ==
  \A i \in 1..Len(putDepths) : putDepths[i] <= HighWaterMark

\* C3 (amended): a page is requested, and its first item put, only at a depth
\* of at most the high-water mark; the k-th put of the page finds the depth
\* of the first plus k - 1.
C3_PageStartsBelowMark ==
  /\ mainpc = "get_workload" => Len(input_queue) <= HighWaterMark
  /\ \A i \in 1..Len(putDepths) :
       /\ putDepths[1] <= HighWaterMark
       /\ putDepths[i] = putDepths[1] + i - 1

\* C3 witness: a page was put whose first put found the depth at the mark
\* and whose last put found it above
C3_Witness ==
  /\ putDepths # <<>>
  /\ putDepths[1] = HighWaterMark
  /\ putDepths[Len(putDepths)] > HighWaterMark

\* C4: every save_workload call carries at least 1 and at most BatchCap items.
C4_BatchCap ==
  /\ \A i \in 1..Len(sinkCalls) : Len(sinkCalls[i]) \in 1..BatchCap
  /\ bpc = "post" => Len(batch) \in 1..BatchCap /\ Ids(batch) = sinkCalls[Len(sinkCalls)]

\* C4 witness: a full batch is in its POST while more results wait
C4_Witness ==
  bpc = "post" /\ Len(batch) = BatchCap /\ output_queue # <<>>

Results == Range(output_queue) \cup Range(batch)

\* the items the workers hold across their GET
Holdings == {held[w][1].item : w \in {v \in Workers : held[v] # None}}

\* the item's URI starts with ipfs:// or with ar://
SchemeUri(item) ==
  StartsWith(item.token_uri, IpfsScheme) \/ StartsWith(item.token_uri, ArScheme)

\* the URI is an inline-data URI that decodes to a text, the empty text included
InlineDecodable(token_uri) == try_get_data(token_uri) # None

\* C6 (as claimed): an item whose URI is inline data that decodes to a text,
\* the empty text included, gets code 200 and the decoded text, and neither
\* replace_ipfs_gateway nor request_metadata is called for it.
C6_InlineNeverFetches ==
  \A item \in Range(input_queue) \cup Holdings \cup Results :
    InlineDecodable(item.token_uri) =>
      /\ item.id \notin rewriteCalls \cup getCalls
      /\ \A c \in requestCalls : c.id # item.id
      /\ item \in Results =>
           /\ item.response_code = Some(CODE_INLINE)
           /\ item.metadata = try_get_data(item.token_uri)

\* the gateway rewrite finds a content-address segment in the URI
HasSegment(token_uri) == SearchStart(token_uri) # 0

\* C7 (as claimed): an item whose URI starts with ipfs:// gets code 4 and
\* one whose URI starts with ar:// gets code 5, with or without a
\* content-address segment; the scheme is checked on the item's own URI and
\* no GET is issued for such an item.
C7_SchemeBeforeRewrite ==
  /\ \A item \in Results :
       /\ StartsWith(item.token_uri, IpfsScheme) =>
            item.response_code = Some(STATUS_CODE_INVALID_IPFS)
       /\ StartsWith(item.token_uri, ArScheme) =>
            item.response_code = Some(STATUS_CODE_UNKNOWN_PROTOCOL)
  /\ \A item \in Holdings \cup Results :
       SchemeUri(item) =>
         /\ item.id \notin getCalls
         /\ \A c \in requestCalls : c.id = item.id => c.arg = item.token_uri

\* C7 (amended): an item whose URI starts with ipfs:// (ar://) and has no
\* content-address segment that the gateway rewrite matches gets code 4 (5)
\* and no GET; the rewrite is applied first and the scheme is checked on its
\* result, so that a URI of these schemes with such a segment is requested
\* from the gateway.
C7_SchemeAfterRewrite ==
  /\ \A item \in Results :
       /\ StartsWith(item.token_uri, IpfsScheme) /\ ~HasSegment(item.token_uri) =>
            /\ item.response_code = Some(STATUS_CODE_INVALID_IPFS)
            /\ item.metadata = Some(Json("{\"error\": \"invalid ipfs link\"}"))
       /\ StartsWith(item.token_uri, ArScheme) /\ ~HasSegment(item.token_uri) =>
            /\ item.response_code = Some(STATUS_CODE_UNKNOWN_PROTOCOL)
            /\ item.metadata = Some(Json("{\"error\": \"unknown protocol\"}"))
  /\ \A item \in Holdings \cup Results :
       SchemeUri(item) =>
         /\ item.id \in getCalls <=> HasSegment(item.token_uri)
         /\ \E c \in requestCalls :
              /\ c.id = item.id
              /\ HasSegment(item.token_uri) =>
                   c.arg # item.token_uri /\ StartsWith(c.arg, IPFS_GATEWAY)
              /\ ~HasSegment(item.token_uri) => c.arg = item.token_uri

\* C7 witness: an ipfs:// URI without a segment was resolved to code 4
C7_Witness ==
  \E item \in Range(output_queue) :
    /\ item.token_uri = IpfsPlain
    /\ item.response_code = Some(STATUS_CODE_INVALID_IPFS)

\* the example of the gateway rewrite
ExampleUri == ExamplePrefix \o <<"/">> \o Rep("Q", CidLenA) \o MetaJson

\* C8 (as claimed): for a URI with a content-address segment the result is
\* the gateway prefix followed by the text from the first character of the
\* matched segment, so that the example gives the gateway, the segment and
\* /meta.json; any other URI is returned unchanged.
C8_RewriteFromSegment ==
  rw_out # None =>
    /\ HasSegment(rw_uri) =>
         rw_out[1] = IPFS_GATEWAY \o SubSeq(rw_uri, SearchStart(rw_uri) + 1, Len(rw_uri))
    /\ ~HasSegment(rw_uri) => rw_out[1] = rw_uri
    /\ rw_uri = ExampleUri => rw_out[1] = IPFS_GATEWAY \o Rep("Q", CidLenA) \o MetaJson

\* the index after the run of alphanumeric characters that starts at k + 1
RunEnd(s, k) ==
  CHOOSE e \in (k + 1)..(Len(s) + 1) :
    /\ \A j \in (k + 1)..(e - 1) : s[j] \in Alnum
    /\ e = Len(s) + 1 \/ s[e] \notin Alnum

\* s[k] is a "/" followed by a content-address segment: a whole run of 46
\* alphanumeric or of 59 lowercase-alphanumeric characters that a "/" or the
\* end of the text (or the newline that ends it) follows
SeparatorOfSegment(s, k) ==
  /\ s[k] = "/"
  /\ LET e == RunEnd(s, k) IN
       /\ \/ e - k - 1 = CidLenA
          \/ e - k - 1 = CidLenB /\ \A j \in (k + 1)..(e - 1) : s[j] \in LowerAlnum
       /\ \/ e = Len(s) + 1
          \/ s[e] = "/"
          \/ e = Len(s) /\ s[e] = "\n"

\* C8 (amended): for a URI with a content-address segment that a "/" precedes
\* and that a "/" or the end follows, the result is the gateway prefix
\* followed by the text from that "/" (the first such one) to the end, so that
\* with the gateway https://gw/ipfs/ the example gives
\* https://gw/ipfs//<segment>/meta.json; any other URI is returned unchanged.
C8_RewriteFromSeparator ==
  rw_out # None =>
    LET seps == {k \in 1..Len(rw_uri) : SeparatorOfSegment(rw_uri, k)} IN
    /\ seps # {} =>
         \E k \in seps :
           /\ \A j \in seps : k <= j
           /\ rw_out[1] = IPFS_GATEWAY \o SubSeq(rw_uri, k, Len(rw_uri))
    /\ seps = {} => rw_out[1] = rw_uri
    /\ rw_uri = ExampleUri =>
         rw_out[1] = IPFS_GATEWAY \o <<"/">> \o Rep("Q", CidLenA) \o MetaJson

\* C8 witness: the example was rewritten
C8_Witness == rw_uri = ExampleUri /\ rw_out # None

\* the ids of the items a worker holds across its GET
HeldIds == {item.id : item \in Holdings}

\* C9: no item is in two save_workload calls, and no item of a call is in a
\* queue or with a worker afterwards, however the call ended.
C9_AtMostOnce ==
  LET sent == Flatten(sinkCalls) IN
  /\ \A i, j \in 1..Len(sent) : i # j => sent[i] # sent[j]
  /\ \A i \in 1..Len(sent) :
       sent[i] \notin Range(Ids(output_queue)) \cup Range(Ids(input_queue)) \cup HeldIds

\* C9 witness: a save_workload call ended in a fault while results wait
C9_Witness ==
  bpc = "dead" /\ sinkCalls # <<>> /\ output_queue # <<>>

\* the codes an item can carry: 0..5, 200 for inline data, an HTTP status
StatusCodes ==
  {STATUS_CODE_NO_RESULT, STATUS_CODE_NOT_PARSABLE, STATUS_CODE_INVALID_URI,
   STATUS_CODE_SERVICE_NOT_FOUND, STATUS_CODE_INVALID_IPFS, STATUS_CODE_UNKNOWN_PROTOCOL,
   STATUS_CODE_NO_JSON, CODE_INLINE} \cup HttpStatuses

NoResponse == [kind |-> "Exception", status |-> 0]

\* C10: every item in the Result Queue or in a save_workload call has a code
\* and a payload that are set; an item whose GET ended in the unset pair has
\* code 0 and the payload {"error": "no response"}.
C10_StatusSet ==
  \A item \in Results :
    /\ item.response_code # None
    /\ item.metadata # None
    /\ item.response_code[1] \in StatusCodes
    /\ (remote = {NoResponse} /\ item.id \in getCalls) =>
         /\ item.response_code = Some(STATUS_CODE_NO_RESULT)
         /\ item.metadata = Some(Json("{\"error\": \"no response\"}"))

\* C10 witness: an item whose GET ended in the unset pair is in a save_workload call
C10_Witness ==
  /\ remote = {NoResponse}
  /\ \E item \in Range(batch) : item.id \in getCalls

\* C11: when main sleeps for backpressure and the Work Queue depth is at or
\* below the mark, the sleep ends in the request of the next page: main
\* leaves the sleep only for get_workload, whatever else holds, and it does
\* leave it.
C11_BackpressureRelease ==
  /\ [][(mainpc = "sleep_bp" /\ Len(input_queue) <= HighWaterMark /\ mainpc' # mainpc)
          => mainpc' = "get_workload"]_vars
  /\ (mainpc = "sleep_bp" /\ Len(input_queue) <= HighWaterMark) ~> (mainpc = "get_workload")

\* C11 witness: the last page left the Work Queue above the mark, the workers
\* brought it back to the mark, and main has woken and requests the next page
C11_Witness ==
  /\ mainpc = "get_workload"
  /\ putDepths # <<>>
  /\ putDepths[Len(putDepths)] + 1 > HighWaterMark
  /\ Len(input_queue) <= HighWaterMark

\* a worker task has ended in a fault that is not a classified fetch failure
WorkerDied == \E w \in Workers : wpc[w] = "dead"

\* C12 (as claimed): after a worker task has ended in a fault, main receives
\* no further page and enqueues no further work.
C12_FailFast ==
  [][WorkerDied => (created' = created /\ Len(input_queue') <= Len(input_queue))]_vars

\* C13 (as claimed): unless a sink call raises a fault, main eventually returns.
C13_EventualHalt == <>(Halted \/ bpc = "dead")

\* the halt of the runs in which no task ends in a fault
C13_HaltUnlessTaskDied == <>(Halted \/ bpc = "dead" \/ WorkerDied)

\* C13 witness of the halt: every item went through a save_workload call and
\* main returned
C13_HaltWitness ==
  Halted /\ created = MaxItems /\ Len(Flatten(sinkCalls)) = MaxItems

\* how often id occurs in a sequence of ids
Count(ids, id) == Cardinality({i \in 1..Len(ids) : ids[i] = id})

\* the workers that hold the item id
Holders(id) == {w \in Workers : held[w] # None /\ held[w][1].item.id = id}

\* the number of places the item id is in: the Work Queue, a worker, the
\* Result Queue, the batches save_worker has taken
Places(id) ==
  Count(Ids(input_queue), id) + Cardinality(Holders(id))
    + Count(Ids(output_queue), id) + Count(Flatten(sinkCalls), id)

\* C14: every WorkloadItem that was enqueued is in exactly one place: in the
\* Work Queue, with one worker, in the Result Queue, or in one batch that
\* save_worker has taken; the batch in flight is the last one taken.
C14_ExclusiveOwnership ==
  /\ \A id \in 1..created : Places(id) = 1
  /\ bpc = "post" => (sinkCalls # <<>> /\ Ids(batch) = sinkCalls[Len(sinkCalls)])

\* C14 witness: two workers hold different items across their GETs while a
\* third item is in a batch
C14_Witness ==
  /\ \E v, w \in Workers :
       /\ wpc[v] = "get" /\ wpc[w] = "get"
       /\ held[v][1].item.id # held[w][1].item.id
  /\ sinkCalls # <<>>

\* the GETs in flight
InFlight == {w \in Workers : wpc[w] = "get"}

\* C15 (as claimed): the number of GETs in flight is at most MAX_REQUESTS,
\* whatever its configured value.
C15_ParallelismBound == Cardinality(InFlight) <= MAX_REQUESTS

\* C16 (as claimed): a save_workload call that ends, however it ends, leaves
\* save_worker running: posting again or asleep.
C16_BatcherSurvives ==
  [][bpc = "post" => bpc' \in {"post", "sleep"}]_vars

\* C17 (as claimed): main has never returned while save_worker is suspended
\* in the POST of a batch it took from the Result Queue.  Stated for the runs
\* whose items all have the ordinary http URI.
C17_NoHaltWithBatchInFlight ==
  (pool = {HttpUri} /\ Halted) => bpc # "post"

\* C18: no get_nowait finds its queue empty: no worker and not save_worker
\* ends in queue.Empty.
C18_NoQueueEmpty ==
  /\ bpc # "queue_empty"
  /\ \A w \in Workers : wpc[w] # "queue_empty"

\* C18 witness: save_worker has taken a batch of the cap with its get_nowait
\* calls while a worker holds an item it took from the Work Queue
C18_Witness ==
  /\ bpc = "post" /\ Len(batch) = BatchCap
  /\ InFlight # {}

\* C19: with pages of at most MaxPage items the Work Queue depth is at most
\* the mark plus MaxPage, and a page is requested only at a depth at or below
\* the mark.
C19_DepthBound ==
  /\ Len(input_queue) <= HighWaterMark + MaxPage
  /\ mainpc = "get_workload" => Len(input_queue) <= HighWaterMark

\* C19 witness: a full page was put on a Work Queue that was at the mark
C19_Witness ==
  /\ Len(input_queue) = HighWaterMark + MaxPage
  /\ Len(putDepths) = MaxPage /\ putDepths[1] = HighWaterMark

\* the step is the one in which the POST of save_workload has ended without a
\* fault
PostCompleted == bpc = "post" /\ batch' # batch /\ bpc' # "dead"

\* C20: after the POST of a batch below the cap save_worker sleeps, leaving
\* the Result Queue as it is; after the POST of a batch of the cap it reads
\* the depth in the same run, taking the next batch or, at depth 0, going to
\* sleep; and while it sleeps on an empty Result Queue no call is made.
C20_FlushCadence ==
  [][ /\ (PostCompleted /\ Len(batch) < BatchCap) =>
          (bpc' = "sleep" /\ UNCHANGED <<output_queue, sinkCalls>>)
      /\ (PostCompleted /\ Len(batch) = BatchCap) =>
          IF output_queue = <<>>
            THEN bpc' = "sleep" /\ UNCHANGED <<output_queue, sinkCalls>>
            ELSE /\ bpc' = "post"
                 /\ Len(batch') = Min(Len(output_queue), BatchCap)
                 /\ output_queue' = SubSeq(output_queue, Len(batch') + 1, Len(output_queue))
                 /\ sinkCalls' = Append(sinkCalls, Ids(batch'))
      /\ (bpc = "sleep" /\ output_queue = <<>>) =>
          (bpc' = "sleep" /\ UNCHANGED sinkCalls)
    ]_vars

\* C20 witness: a batch of the cap was followed by a batch below the cap,
\* whose POST is pending
C20_Witness ==
  /\ bpc = "post" /\ Len(batch) < BatchCap
  /\ Len(sinkCalls) >= 2
  /\ Len(sinkCalls[Len(sinkCalls) - 1]) = BatchCap

====
